---- MODULE Spec2Model ----
(***************************************************************************)
(* Model of task-tracker/task_cli.py: a task list kept in one JSON file.   *)
(* The store file is the only persistent state.  Every operation reads     *)
(* the whole file, transforms the list in memory and writes the whole      *)
(* file back.                                                              *)
(*                                                                         *)
(* Spec drives the operation functions directly (add_task, update_task,    *)
(* ...).  SpecHist does the same and records which ids were deleted,       *)
(* SpecList records the table list_tasks prints, SpecMark the status       *)
(* changes mark_task makes, and SpecResave adds a load followed by a       *)
(* save.  SpecAdd calls add_task only, SpecInitialize and SpecCorrupt run  *)
(* on a file that other programs write as well, and SpecCLI runs the       *)
(* program through main(), one process invocation per step.                *)
(***************************************************************************)
EXTENDS Integers, Sequences, FiniteSets, TLC

VARIABLES
    file,       \* content of tasks.json: [kind, items]
    now,        \* the latest clock reading stored, in ticks; the clock is not behind it
    res,        \* the last invocation: [op, argc, task_id, out, exc, wrote, id]
    deleted,    \* history: the ids removed by successful deletes so far
    shown,      \* history: what the last list_tasks call was given and printed
    was         \* history: the status change the last mark_task call made

vars == <<file, now, res, deleted, shown, was>>

----------------------------------------------------------------------------
(* Bounds of the model. *)

MaxTasks == 2           \* add is not taken beyond this many stored tasks
MaxClock == 2           \* the clock stops advancing at this tick
TicksPerMinute == 2     \* clock ticks within one minute of DATE_FORMAT
MaxAdds == 3            \* length of the add-only runs of SpecAdd

(* Inputs. *)

Descs == {"", "a"}                                  \* descriptions handed to add_task / update_task
MarkStatuses == {"done"}                            \* status handed to mark_task directly
CliMarkStatuses == {"in-progress", "done"}          \* statuses main() hands to mark_task
AnyMarkStatuses == CliMarkStatuses \cup {"archived"} \* those, and a text that is no status
FilterTexts == {"", "todo", "done", "archived"}     \* status texts handed to list_tasks
TaskIds == 1..(MaxTasks + 1)                        \* task ids handed to update/delete/mark
WriteOutcomes == {"ok", "openfail", "dumpfail"}     \* what the filesystem does with a write

ValidStatuses == {"todo", "in-progress", "done"}

\* An optional argument: None (not given) or a string.
NoArg == [given |-> FALSE, text |-> ""]
\* "if x:" is false for None and for the empty string.
Truthy(task_info) == task_info.given /\ task_info.text # ""

\* list_tasks(status=None): no filter, or a filter string.
ListFilters == {NoArg} \cup [given : {TRUE}, text : FilterTexts]

----------------------------------------------------------------------------
(* The store file. *)

Missing == [kind |-> "missing", items |-> <<>>]     \* no file at the path
Truncated == [kind |-> "invalid", items |-> <<>>]   \* a file that is not valid JSON

NotList == [kind |-> "notlist", items |-> <<>>]     \* valid JSON that is not an array

\* The text json.dump writes for a list of dicts: one JSON object per dict,
\* in list order; an object is its members <<key, value>> in the order of
\* the dict's keys (the order add_task builds a task in), the id written
\* as a number and the other values as strings.
Keys == <<"id", "description", "status", "createdAt", "updatedAt">>
dump_value(k, v) == <<IF k = "id" THEN "number" ELSE "string", v>>
dump_object(task) ==
    LET ks == SelectSeq(Keys, LAMBDA k : k \in DOMAIN task)
    IN  [n \in 1..Len(ks) |-> <<ks[n], dump_value(ks[n], task[ks[n]])>>]
json_dumps(tasks) == [i \in 1..Len(tasks) |-> dump_object(tasks[i])]

\* What json.load makes of such a text: one dict per object, in order; a
\* key has the value of its last member.
load_object(members) ==
    [k \in {members[n][1] : n \in 1..Len(members)} |->
        LET last == CHOOSE n \in 1..Len(members) :
                        /\ members[n][1] = k
                        /\ \A m \in (n + 1)..Len(members) : members[m][1] # k
        IN  members[last][2][2]]
json_loads(text) == [i \in 1..Len(text) |-> load_object(text[i])]

\* json.dump of a list: a file holding a JSON array; items is the list
\* json.load reads back from the text written.
json_dump(tasks) == [kind |-> "list", items |-> json_loads(json_dumps(tasks))]

\* datetime.now().strftime("%d-%m-%Y %H:%M"): the reading cut to the minute.
get_current_date(t) == t \div TicksPerMinute

\* A slip in the mode of open: "a" puts the new text after the old one,
\* and two JSON texts in a row are not valid JSON.
open_a_dump(tasks, f, w) ==
    [file |-> CASE w = "ok" /\ f.kind = "missing" -> json_dump(tasks)
                [] w = "ok" -> Truncated
                [] w = "openfail" -> f
                [] OTHER -> Truncated,
     exc |-> IF w = "ok" THEN "none" ELSE "OSError"]

\* open(filename, "w") truncates the file, json.dump then fills it.  A
\* failing open leaves the file as it was; a failure after the open leaves
\* a truncated file.  Either failure raises OSError.
open_w_dump(tasks, f, w) ==
    [file |-> CASE w = "ok" -> json_dump(tasks)
                [] w = "openfail" -> f
                [] OTHER -> Truncated,
     exc |-> IF w = "ok" THEN "none" ELSE "OSError"]

\* A slip in initialize_task_file: no test whether the file is there.
initialize_task_file_always(f, w) == open_w_dump(<<>>, f, w)

\* Another slip: a file that does not hold a list is created afresh.
initialize_task_file_repairs(f, w) ==
    IF f.kind = "list"
    THEN [file |-> f, exc |-> "none"]
    ELSE open_w_dump(<<>>, f, w)

initialize_task_file(f, w) ==
    IF f.kind = "missing"
    THEN open_w_dump(<<>>, f, w)
    ELSE [file |-> f, exc |-> "none"]

\* A slip in read_tasks: a file that is not there reads as no tasks.
read_tasks_missing_is_empty(f) ==
    IF f.kind \in {"missing", "list"}
    THEN [exc |-> "none", tasks |-> f.items]
    ELSE [exc |-> "ValueError", tasks |-> <<>>]

read_tasks(f) ==
    IF f.kind = "missing"
    THEN [exc |-> "FileNotFoundError", tasks |-> <<>>]
    ELSE IF f.kind = "list"
         THEN [exc |-> "none", tasks |-> f.items]
         ELSE [exc |-> "ValueError", tasks |-> <<>>]

write_tasks(tasks, f, w) == open_w_dump(tasks, f, w)

----------------------------------------------------------------------------
(* The operations.  Each yields [file, out, exc, wrote, id]: the file     *)
(* afterwards, the lines printed, the exception that escaped ("none" if   *)
(* the call returned), whether write_tasks was called, and the id given   *)
(* to a new task (0 when none was made).                                  *)

Result(f, out, exc, wrote, id) ==
    [file |-> f, out |-> out, exc |-> exc, wrote |-> wrote, id |-> id]

\* A record of the file is a JSON object; task[k] raises KeyError when the
\* object has no key k, and task[k] = v adds the key when it is not there.
Has(task, k) == k \in DOMAIN task
SetField(task, k, v) ==
    IF k \in DOMAIN task
    THEN [task EXCEPT ![k] = v]
    ELSE [x \in DOMAIN task \cup {k} |-> IF x = k THEN v ELSE task[x]]
Fields == {"id", "description", "status", "createdAt", "updatedAt"}

HasId(tasks, task_id) ==
    \E i \in 1..Len(tasks) : Has(tasks[i], "id") /\ tasks[i].id = task_id

\* A slip in the loop: the last task with this id is taken.
LastIdx(tasks, task_id) ==
    CHOOSE i \in 1..Len(tasks) :
        /\ Has(tasks[i], "id") /\ tasks[i].id = task_id
        /\ \A j \in (i + 1)..Len(tasks) : ~(Has(tasks[j], "id") /\ tasks[j].id = task_id)

\* Index of the first task the loop "for task in tasks" finds with this id.
FirstIdx(tasks, task_id) ==
    CHOOSE i \in 1..Len(tasks) :
        /\ Has(tasks[i], "id") /\ tasks[i].id = task_id
        /\ \A j \in 1..(i - 1) : ~(Has(tasks[j], "id") /\ tasks[j].id = task_id)

\* The loop reads task["id"] of every task up to the first match: KeyError
\* when one of them has no id.
ScanKeyError(tasks, task_id) ==
    \E j \in 1..Len(tasks) :
        /\ ~Has(tasks[j], "id")
        /\ HasId(tasks, task_id) => j < FirstIdx(tasks, task_id)

\* Contents another program or an editor can leave in the file: JSON that
\* is not an array, an array whose one entry lacks status and the dates,
\* an array whose one entry lacks the id.
ExternalContents ==
    {NotList,
     json_dump(<<[id |-> 1, description |-> "a"]>>),
     json_dump(<<[description |-> "a", status |-> "todo",
                  createdAt |-> 0, updatedAt |-> 0]>>)}

\* A slip in the id computation: the count itself.
NewIdCountOnly(tasks) == Len(tasks)

NewId(tasks) == Len(tasks) + 1

add_task(description, f, t1, t2, w, wi) ==
    LET r == read_tasks(f)
        ini == initialize_task_file(f, wi)
        task == [id |-> NewId(r.tasks),
                 description |-> description,
                 status |-> "todo",
                 createdAt |-> get_current_date(t1),
                 updatedAt |-> get_current_date(t2)]
    IN  IF r.exc = "ValueError"
        THEN Result(f, <<>>, "ValueError", FALSE, 0)
        ELSE IF r.exc = "FileNotFoundError" /\ ini.exc # "none"
        THEN Result(ini.file, <<"initializing">>, ini.exc, FALSE, 0)
        ELSE LET f1 == IF r.exc = "FileNotFoundError" THEN ini.file ELSE f
                 pre == IF r.exc = "FileNotFoundError" THEN <<"initializing">> ELSE <<>>
                 wr == write_tasks(Append(r.tasks, task), f1, w)
             IN  IF wr.exc = "none"
                 THEN Result(wr.file, pre \o <<"added">>, "none", TRUE, task.id)
                 ELSE Result(wr.file, pre, wr.exc, TRUE, 0)

\* A slip in list_tasks: the status is not looked at.
filter_tasks_all(status, tasks) == tasks

\* The tasks list_tasks keeps: those with the status when a status is
\* given, all of them otherwise.
filter_tasks(status, tasks) ==
    IF Truthy(status)
    THEN SelectSeq(tasks, LAMBDA task : task.status = status.text)
    ELSE tasks

\* The rows handed to tabulate: one per task kept, the five fields in the
\* order of the headers.
table_data(tasks) ==
    [i \in 1..Len(tasks) |->
        <<tasks[i].id, tasks[i].description, tasks[i].status,
          tasks[i].createdAt, tasks[i].updatedAt>>]

\* The table list_tasks prints; empty when it prints a message instead.
list_table(status, f) ==
    LET r == read_tasks(f)
    IN  IF r.exc # "none" THEN <<>> ELSE table_data(filter_tasks(status, r.tasks))

list_tasks(status, f) ==
    LET r == read_tasks(f)
    IN  IF r.exc # "none"
        THEN Result(f, <<"readerror">>, "none", FALSE, 0)
        ELSE IF Truthy(status) /\ \E i \in 1..Len(r.tasks) : ~Has(r.tasks[i], "status")
        THEN Result(f, <<>>, "KeyError", FALSE, 0)
        ELSE LET tasks == filter_tasks(status, r.tasks)
             IN  IF tasks = <<>>
                 THEN Result(f, <<"notasks">>, "none", FALSE, 0)
                 ELSE IF \E i \in 1..Len(tasks) : ~(Fields \subseteq DOMAIN tasks[i])
                 THEN Result(f, <<>>, "KeyError", FALSE, 0)
                 ELSE Result(f, <<"table">>, "none", FALSE, 0)

\* A slip in update_task: the task updated is moved to the end of the list.
update_task_moves_last(task_id, new_description, f, t, w) ==
    LET r == read_tasks(f)
    IN  IF r.exc # "none"
        THEN Result(f, <<"readerror">>, "none", FALSE, 0)
        ELSE IF ScanKeyError(r.tasks, task_id)
        THEN Result(f, <<>>, "KeyError", FALSE, 0)
        ELSE IF ~HasId(r.tasks, task_id)
        THEN Result(f, <<"notfound">>, "none", FALSE, 0)
        ELSE LET i == FirstIdx(r.tasks, task_id)
                 task == SetField(SetField(r.tasks[i], "description", new_description),
                                  "updatedAt", get_current_date(t))
                 tasks == SubSeq(r.tasks, 1, i - 1)
                          \o SubSeq(r.tasks, i + 1, Len(r.tasks)) \o <<task>>
                 wr == write_tasks(tasks, f, w)
             IN  IF wr.exc = "none"
                 THEN Result(wr.file, <<"updated">>, "none", TRUE, 0)
                 ELSE Result(wr.file, <<>>, wr.exc, TRUE, 0)

update_task(task_id, new_description, f, t, w) ==
    LET r == read_tasks(f)
    IN  IF r.exc # "none"
        THEN Result(f, <<"readerror">>, "none", FALSE, 0)
        ELSE IF ScanKeyError(r.tasks, task_id)
        THEN Result(f, <<>>, "KeyError", FALSE, 0)
        ELSE IF ~HasId(r.tasks, task_id)
        THEN Result(f, <<"notfound">>, "none", FALSE, 0)
        ELSE LET i == FirstIdx(r.tasks, task_id)
                 task == SetField(SetField(r.tasks[i], "description", new_description),
                                  "updatedAt", get_current_date(t))
                 tasks == [r.tasks EXCEPT ![i] = task]
                 wr == write_tasks(tasks, f, w)
             IN  IF wr.exc = "none"
                 THEN Result(wr.file, <<"updated">>, "none", TRUE, 0)
                 ELSE Result(wr.file, <<>>, wr.exc, TRUE, 0)

\* A slip in delete_task: the collection is written back whether or not a
\* task was removed.
delete_task_rewrites(task_id, f, w) ==
    LET r == read_tasks(f)
        new_tasks == SelectSeq(r.tasks, LAMBDA task : task.id # task_id)
    IN  IF r.exc # "none"
        THEN Result(f, <<"readerror">>, "none", FALSE, 0)
        ELSE IF \E i \in 1..Len(r.tasks) : ~Has(r.tasks[i], "id")
        THEN Result(f, <<>>, "KeyError", FALSE, 0)
        ELSE LET wr == write_tasks(new_tasks, f, w)
             IN  IF wr.exc = "none"
                 THEN Result(wr.file, <<"deleted">>, "none", TRUE, 0)
                 ELSE Result(wr.file, <<>>, wr.exc, TRUE, 0)

delete_task(task_id, f, w) ==
    LET r == read_tasks(f)
        new_tasks == SelectSeq(r.tasks, LAMBDA task : task.id # task_id)
    IN  IF r.exc # "none"
        THEN Result(f, <<"readerror">>, "none", FALSE, 0)
        ELSE IF \E i \in 1..Len(r.tasks) : ~Has(r.tasks[i], "id")
        THEN Result(f, <<>>, "KeyError", FALSE, 0)
        ELSE IF Len(new_tasks) = Len(r.tasks)
        THEN Result(f, <<"notfound">>, "none", FALSE, 0)
        ELSE LET wr == write_tasks(new_tasks, f, w)
             IN  IF wr.exc = "none"
                 THEN Result(wr.file, <<"deleted">>, "none", TRUE, 0)
                 ELSE Result(wr.file, <<>>, wr.exc, TRUE, 0)

\* A slip in mark_task: a task that is done is not marked again.
mark_task_done_is_final(task_id, status, f, t, w) ==
    LET r == read_tasks(f)
    IN  IF r.exc # "none"
        THEN Result(f, <<"readerror">>, "none", FALSE, 0)
        ELSE IF ScanKeyError(r.tasks, task_id)
        THEN Result(f, <<>>, "KeyError", FALSE, 0)
        ELSE IF ~HasId(r.tasks, task_id)
        THEN Result(f, <<"notfound">>, "none", FALSE, 0)
        ELSE IF r.tasks[FirstIdx(r.tasks, task_id)].status = "done"
        THEN Result(f, <<"final">>, "none", FALSE, 0)
        ELSE LET i == FirstIdx(r.tasks, task_id)
                 task == SetField(SetField(r.tasks[i], "status", status),
                                  "updatedAt", get_current_date(t))
                 tasks == [r.tasks EXCEPT ![i] = task]
                 wr == write_tasks(tasks, f, w)
             IN  IF wr.exc = "none"
                 THEN Result(wr.file, <<"marked">>, "none", TRUE, 0)
                 ELSE Result(wr.file, <<>>, wr.exc, TRUE, 0)

mark_task(task_id, status, f, t, w) ==
    LET r == read_tasks(f)
    IN  IF r.exc # "none"
        THEN Result(f, <<"readerror">>, "none", FALSE, 0)
        ELSE IF ScanKeyError(r.tasks, task_id)
        THEN Result(f, <<>>, "KeyError", FALSE, 0)
        ELSE IF ~HasId(r.tasks, task_id)
        THEN Result(f, <<"notfound">>, "none", FALSE, 0)
        ELSE LET i == FirstIdx(r.tasks, task_id)
                 task == SetField(SetField(r.tasks[i], "status", status),
                                  "updatedAt", get_current_date(t))
                 tasks == [r.tasks EXCEPT ![i] = task]
                 wr == write_tasks(tasks, f, w)
             IN  IF wr.exc = "none"
                 THEN Result(wr.file, <<"marked">>, "none", TRUE, 0)
                 ELSE Result(wr.file, <<>>, wr.exc, TRUE, 0)

----------------------------------------------------------------------------
(* The command line.  argv is: command, an optional task_info, and        *)
(* possibly further positional arguments (extra).                         *)

Choices == {"add", "list", "update", "delete", "mark-in-progress", "mark-done"}
Commands == Choices \cup {"bogus"}
CliTexts == {"", "x", "1", "2"}
ExtraText == "y"
TaskInfos == {NoArg} \cup [given : {TRUE}, text : CliTexts]

\* The command lines tried: every command with every task_info, and every
\* command with one further positional argument (ExtraText) after a task id.
\* The descriptions given to add are the empty one and AddText.
AddText == "x"
Argvs ==
    {a \in [command : Commands, task_info : TaskInfos, extra : {FALSE}] :
        a.command = "add" => a.task_info.text \in {"", AddText}}
    \cup [command : Commands, task_info : {[given |-> TRUE, text |-> "1"]}, extra : {TRUE}]

\* int(task_info): the decimal literals among the texts; anything else
\* raises ValueError.
IntLiteral == ("1" :> 1) @@ ("2" :> 2)
ParseInt(s) ==
    IF s \in DOMAIN IntLiteral
    THEN [ok |-> TRUE, val |-> IntLiteral[s]]
    ELSE [ok |-> FALSE, val |-> 0]

\* The task id main() hands to the operation (0 when it hands none).
CliTaskId(command, task_info) ==
    IF command \in {"update", "delete", "mark-in-progress", "mark-done"}
       /\ Truthy(task_info)
    THEN ParseInt(task_info.text).val
    ELSE 0

main(command, task_info, extra, f, t1, t2, w, wi) ==
    LET ini == initialize_task_file(f, wi)
        f0 == ini.file
        n == ParseInt(task_info.text)
    IN  IF ini.exc # "none"
        THEN Result(f0, <<>>, ini.exc, FALSE, 0)
        ELSE IF command \notin Choices \/ extra
        THEN Result(f0, <<"usage">>, "SystemExit", FALSE, 0)
        ELSE CASE command = "add" ->
                    IF Truthy(task_info)
                    THEN add_task(task_info.text, f0, t1, t2, w, wi)
                    ELSE Result(f0, <<"missingarg">>, "none", FALSE, 0)
               [] command = "list" ->
                    list_tasks(task_info, f0)
               [] command = "update" ->
                    IF ~Truthy(task_info)
                    THEN Result(f0, <<"missingarg">>, "none", FALSE, 0)
                    ELSE IF ~n.ok
                    THEN Result(f0, <<"notint">>, "none", FALSE, 0)
                    ELSE Result(f0, <<>>, "TypeError", FALSE, 0)
               [] command = "delete" ->
                    IF ~Truthy(task_info)
                    THEN Result(f0, <<"missingarg">>, "none", FALSE, 0)
                    ELSE IF ~n.ok
                    THEN Result(f0, <<"notint">>, "none", FALSE, 0)
                    ELSE delete_task(n.val, f0, w)
               [] OTHER ->
                    IF ~Truthy(task_info)
                    THEN Result(f0, <<"missingarg">>, "none", FALSE, 0)
                    ELSE IF ~n.ok
                    THEN Result(f0, <<"notint">>, "none", FALSE, 0)
                    ELSE mark_task(n.val,
                                   IF command = "mark-in-progress"
                                   THEN "in-progress" ELSE "done",
                                   f0, t1, w)

----------------------------------------------------------------------------
(* The state machine. *)

NoRes == [op |-> "none", argc |-> 0, task_id |-> 0, out |-> <<>>, exc |-> "none",
          wrote |-> FALSE, id |-> 0]

\* Nothing listed, nothing marked.
NoShown == <<>>
NoMark == <<>>

\* No store file yet.
Init ==
    /\ file = Missing
    /\ now = 0
    /\ res = NoRes
    /\ deleted = {}
    /\ shown = NoShown
    /\ was = NoMark

\* One invocation: op with result r; t is the last clock reading it took.
\* The clock is read exactly on the paths that go on to call write_tasks.
Do(op, argc, task_id, r, t) ==
    /\ file' = r.file
    /\ res' = [op |-> op, argc |-> argc, task_id |-> task_id, out |-> r.out,
               exc |-> r.exc, wrote |-> r.wrote, id |-> r.id]
    /\ now' = IF r.wrote THEN t ELSE now

\* The inputs an invocation consumes.  A clock reading and a filesystem
\* outcome are drawn only where the code reads the clock or writes:
\* initialize_task_file writes only when the file is missing, add_task
\* goes on unless read_tasks raised ValueError, update_task and mark_task
\* only once they found the task, delete_task only when it removed one.
\* Of the readings within one minute the earliest one is tried: the date
\* stored is the same for all of them, and a later one only leaves less
\* time for what follows.
Readings(used) ==
    IF used
    THEN {t \in now..MaxClock : t = now \/ t % TicksPerMinute = 0}
    ELSE {now}
Outcomes(used) == IF used THEN WriteOutcomes ELSE {"ok"}
\* A reading matters only when it is stored: with a write that fails the
\* reading tried is the one that leaves the clock where it is.
Stored1(t, w) == w # "ok" => t = now
Stored2(t1, t2, w, wi) == (w # "ok" \/ wi # "ok") => (t1 = now /\ t2 = now)
Readable == file.kind = "list"
Adds == file.kind \in {"list", "missing"}
Hits(task_id) == Readable /\ HasId(file.items, task_id)

InitializeTaskFile ==
    \E wi \in Outcomes(file.kind = "missing") :
        LET ini == initialize_task_file(file, wi)
        IN  Do("init", 0, 0, Result(ini.file, <<>>, ini.exc, FALSE, 0), now)

AddTaskOf(n, descs) ==
    /\ Len(file.items) < n
    /\ \E d \in descs, t1 \in Readings(Adds), w \in Outcomes(Adds),
          wi \in Outcomes(file.kind = "missing") :
         \E t2 \in Readings(Adds) :
            /\ t1 <= t2
            /\ Stored2(t1, t2, w, wi)
            /\ Do("add", 1, 0, add_task(d, file, t1, t2, w, wi), t2)

AddTaskUpTo(n) == AddTaskOf(n, Descs)

AddTask == AddTaskUpTo(MaxTasks)

ListTasks ==
    \E s \in ListFilters :
        Do("list", 1, 0, list_tasks(s, file), now)

\* The same call, with the filter, the table printed and the file as it
\* was before the call recorded.
ListTasksShown ==
    \E s \in ListFilters :
        /\ Do("list", 1, 0, list_tasks(s, file), now)
        /\ shown' = [status |-> s, table |-> list_table(s, file), before |-> file]

UpdateTask ==
    \E i \in TaskIds, d \in Descs :
        \E t \in Readings(Hits(i)), w \in Outcomes(Hits(i)) :
            /\ Stored1(t, w)
            /\ Do("update", 2, i, update_task(i, d, file, t, w), t)

DeleteTask ==
    \E i \in TaskIds :
        \E w \in Outcomes(Hits(i)) :
            Do("delete", 1, i, delete_task(i, file, w), now)

MarkTask ==
    \E i \in TaskIds, s \in MarkStatuses :
        \E t \in Readings(Hits(i)), w \in Outcomes(Hits(i)) :
            /\ Stored1(t, w)
            /\ Do("mark", 2, i, mark_task(i, s, file, t, w), t)

\* mark_task with any of the statuses; the status the task had and the
\* status asked for are recorded.
MarkTaskWas ==
    \E i \in TaskIds, s \in AnyMarkStatuses :
        \E t \in Readings(Hits(i)), w \in Outcomes(Hits(i)) :
            /\ Stored1(t, w)
            /\ Do("mark", 2, i, mark_task(i, s, file, t, w), t)
            /\ was' = [hit |-> Hits(i),
                       from |-> IF Hits(i)
                                THEN file.items[FirstIdx(file.items, i)].status
                                ELSE "",
                       to |-> s]

\* The collection is read and written back as it is.
Resave ==
    /\ Readable
    /\ \E w \in WriteOutcomes :
         LET r == read_tasks(file)
             wr == write_tasks(r.tasks, file, w)
         IN  Do("resave", 0, 0, Result(wr.file, <<>>, wr.exc, TRUE, 0), now)

\* The file is replaced from outside the program.
ExternalWrite ==
    \E c \in ExternalContents :
        Do("external", 0, 0, Result(c, <<>>, "none", FALSE, 0), now)

\* The number of positional arguments after the command.
Argc(argv) == (IF argv.task_info.given THEN 1 ELSE 0) + (IF argv.extra THEN 1 ELSE 0)

\* One run of the program: python task_cli.py command [task_info] [extra...]
Main(command) ==
    \E argv \in {a \in Argvs : a.command = command},
       wi \in Outcomes(file.kind = "missing") :
        LET id == CliTaskId(argv.command, argv.task_info)
            adding == argv.command = "add" /\ Truthy(argv.task_info) /\ ~argv.extra
            writing == ~argv.extra /\
                       \/ adding
                       \/ argv.command \in {"delete", "mark-in-progress", "mark-done"}
                          /\ Hits(id)
        IN  \E t1 \in Readings(writing), w \in Outcomes(writing) :
              \E t2 \in Readings(adding) :
                /\ t1 <= t2
                /\ Stored2(t1, t2, w, wi)
                /\ adding => Len(file.items) < MaxTasks
                /\ Do(IF argv.command \in {"mark-in-progress", "mark-done"}
                      THEN "mark" ELSE argv.command,
                      Argc(argv),
                      id,
                      main(argv.command, argv.task_info, argv.extra, file, t1, t2, w, wi),
                      t2)

\* History: the ids a successful delete has removed.
Track ==
    deleted' = IF res'.op = "delete" /\ res'.out = <<"deleted">>
               THEN deleted \cup {res'.task_id}
               ELSE deleted

\* The operations called directly.
Next ==
    \/ InitializeTaskFile /\ UNCHANGED <<deleted, shown, was>>
    \/ AddTask /\ UNCHANGED <<deleted, shown, was>>
    \/ ListTasks /\ UNCHANGED <<deleted, shown, was>>
    \/ UpdateTask /\ UNCHANGED <<deleted, shown, was>>
    \/ DeleteTask /\ UNCHANGED <<deleted, shown, was>>
    \/ MarkTask /\ UNCHANGED <<deleted, shown, was>>

Spec == Init /\ [][Next]_vars

\* The same operations, with the history of deletions recorded.
NextHist ==
    \/ InitializeTaskFile /\ Track /\ UNCHANGED <<shown, was>>
    \/ AddTask /\ Track /\ UNCHANGED <<shown, was>>
    \/ ListTasks /\ Track /\ UNCHANGED <<shown, was>>
    \/ UpdateTask /\ Track /\ UNCHANGED <<shown, was>>
    \/ DeleteTask /\ Track /\ UNCHANGED <<shown, was>>
    \/ MarkTask /\ Track /\ UNCHANGED <<shown, was>>

SpecHist == Init /\ [][NextHist]_vars

\* Only add calls, from the empty store.
NextAdd == AddTaskUpTo(MaxAdds) /\ UNCHANGED <<deleted, shown, was>>

SpecAdd == Init /\ [][NextAdd]_vars

\* Only runs of the program through main().
NextCLI ==
    \/ Main("add") /\ UNCHANGED <<deleted, shown, was>>
    \/ Main("list") /\ UNCHANGED <<deleted, shown, was>>
    \/ Main("update") /\ UNCHANGED <<deleted, shown, was>>
    \/ Main("delete") /\ UNCHANGED <<deleted, shown, was>>
    \/ Main("mark-in-progress") /\ UNCHANGED <<deleted, shown, was>>
    \/ Main("mark-done") /\ UNCHANGED <<deleted, shown, was>>
    \/ Main("bogus") /\ UNCHANGED <<deleted, shown, was>>

SpecCLI == Init /\ [][NextCLI]_vars

\* The operations called directly, with what list_tasks printed recorded.
NextList ==
    \/ InitializeTaskFile /\ shown' = NoShown /\ UNCHANGED <<deleted, was>>
    \/ AddTask /\ shown' = NoShown /\ UNCHANGED <<deleted, was>>
    \/ ListTasksShown /\ UNCHANGED <<deleted, was>>
    \/ UpdateTask /\ shown' = NoShown /\ UNCHANGED <<deleted, was>>
    \/ DeleteTask /\ shown' = NoShown /\ UNCHANGED <<deleted, was>>
    \/ MarkTask /\ shown' = NoShown /\ UNCHANGED <<deleted, was>>

SpecList == Init /\ [][NextList]_vars

\* add_task and mark_task only, with the status changes recorded.
NextMark ==
    \/ AddTaskOf(MaxTasks, {"a"}) /\ was' = NoMark /\ UNCHANGED <<deleted, shown>>
    \/ MarkTaskWas /\ UNCHANGED <<deleted, shown>>

SpecMark == Init /\ [][NextMark]_vars

\* initialize_task_file on the files add_task and other programs leave.
NextInitialize ==
    \/ InitializeTaskFile /\ UNCHANGED <<deleted, shown, was>>
    \/ AddTask /\ UNCHANGED <<deleted, shown, was>>
    \/ ExternalWrite /\ UNCHANGED <<deleted, shown, was>>

SpecInitialize == Init /\ [][NextInitialize]_vars

\* The operations that write, and a load followed by a save.
NextResave ==
    \/ InitializeTaskFile /\ UNCHANGED <<deleted, shown, was>>
    \/ AddTask /\ UNCHANGED <<deleted, shown, was>>
    \/ UpdateTask /\ UNCHANGED <<deleted, shown, was>>
    \/ DeleteTask /\ UNCHANGED <<deleted, shown, was>>
    \/ MarkTask /\ UNCHANGED <<deleted, shown, was>>
    \/ Resave /\ UNCHANGED <<deleted, shown, was>>

SpecResave == Init /\ [][NextResave]_vars

\* The operations called directly on a file that is also written from
\* outside the program.
NextCorrupt ==
    \/ ExternalWrite /\ UNCHANGED <<deleted, shown, was>>
    \/ InitializeTaskFile /\ UNCHANGED <<deleted, shown, was>>
    \/ AddTask /\ UNCHANGED <<deleted, shown, was>>
    \/ ListTasks /\ UNCHANGED <<deleted, shown, was>>
    \/ UpdateTask /\ UNCHANGED <<deleted, shown, was>>
    \/ DeleteTask /\ UNCHANGED <<deleted, shown, was>>
    \/ MarkTask /\ UNCHANGED <<deleted, shown, was>>

SpecCorrupt == Init /\ [][NextCorrupt]_vars

----------------------------------------------------------------------------
(* Properties. *)

Stored == file.items
Ids(tasks) == {tasks[i].id : i \in 1..Len(tasks)}
MaxOf(S) == IF S = {} THEN 0 ELSE CHOOSE m \in S : \A x \in S : x <= m
Added == res.op = "add" /\ res.exc = "none"

\* C1: in every state reachable by add, update, delete and mark, no two
\* tasks of the persisted collection have the same id.
C1_UniqueIds ==
    Readable =>
        \A i, j \in 1..Len(Stored) : i # j => Stored[i].id # Stored[j].id

\* C2: add gives the new task the id 1 + (maximum id in the collection it
\* was added to), or 1 if that collection was empty.
C2_AddAssignsMaxPlusOne ==
    Added =>
        res.id = 1 + MaxOf(Ids(SubSeq(Stored, 1, Len(Stored) - 1)))

\* C3: once a task with id i has been deleted, no later add gives the new
\* task the id i.
C3_DeletedIdNotReassigned ==
    Added => res.id \notin deleted

\* C4: in a run of add calls only, from the empty store, the k-th task
\* added has id k: the stored ids are 1, 2, ..., in order, and the id an
\* add reports is the number of tasks added so far.
C4_AddsCountUp ==
    Readable =>
        /\ \A k \in 1..Len(Stored) : Stored[k].id = k
        /\ Added => res.id = Len(Stored)

C4_ThreeAdded ==
    /\ Added
    /\ Len(Stored) = 3
    /\ res.id = 3

\* C5: the command line "update <id> <new-description>", for an id that is
\* in the store, ends with that task's description replaced by the new
\* description, its updatedAt refreshed and the collection written.
C5_CliUpdateReplaces ==
    [][(/\ res'.op = "update"
        /\ res'.argc = 2
        /\ Hits(res'.task_id))
       => (/\ res'.out = <<"updated">>
           /\ res'.wrote
           /\ file'.kind = "list"
           /\ Len(file'.items) = Len(Stored)
           /\ LET i == FirstIdx(Stored, res'.task_id)
              IN  /\ file'.items[i].description = ExtraText
                  /\ file'.items[i].updatedAt = get_current_date(now'))]_vars

\* C6: no run of the program ends in an uncaught exception: every error is
\* caught and reported as a printed message.  (The exit argparse makes on a
\* bad command line is a reported error, not counted here.)
C6_NoAbnormalTermination ==
    res.exc \in {"none", "SystemExit"}

\* C7: update, mark and delete with an id that no task of the collection
\* has report not-found, leave the store file as it is and do not call
\* write_tasks.
C7_AbsentIdIsNoOp ==
    [][(/\ res'.op \in {"update", "mark", "delete"}
        /\ Readable
        /\ ~HasId(Stored, res'.task_id))
       => (/\ res'.out = <<"notfound">>
           /\ res'.exc = "none"
           /\ ~res'.wrote
           /\ file' = file)]_vars

C7_NotFoundOnStore ==
    /\ res.op \in {"update", "mark", "delete"}
    /\ res.out = <<"notfound">>
    /\ Readable
    /\ Len(Stored) > 0

\* Stored timestamps are in order, and equal on the task add just made.
C8_Ordered ==
    Readable =>
        /\ \A i \in 1..Len(Stored) : Stored[i].updatedAt >= Stored[i].createdAt
        /\ Added => Stored[Len(Stored)].updatedAt = Stored[Len(Stored)].createdAt

\* A successful update or mark lowers no updatedAt and changes no createdAt.
C8_Refresh ==
    (/\ res'.out \in {<<"updated">>, <<"marked">>}
     /\ Readable)
    => (/\ file'.kind = "list"
        /\ Len(file'.items) = Len(Stored)
        /\ \A i \in 1..Len(Stored) :
              /\ file'.items[i].createdAt = Stored[i].createdAt
              /\ file'.items[i].updatedAt >= Stored[i].updatedAt)

\* C8: with a clock that never goes back, update and mark set updatedAt to
\* a value >= the one before and change no createdAt; updatedAt >= createdAt
\* for every stored task, and the two are equal right after add.
C8_Timestamps == []C8_Ordered /\ [][C8_Refresh]_vars

\* C9: every stored task's status is one of todo, in-progress, done.
C9_StatusesValid ==
    Readable =>
        \A i \in 1..Len(Stored) : Stored[i].status \in ValidStatuses

\* C10: an empty description is rejected by add and by update, so every
\* stored task's description is non-empty.
C10_DescriptionsNonEmpty ==
    Readable =>
        \A i \in 1..Len(Stored) : Stored[i].description # ""

\* The index in tasks of the k-th task that list_tasks(status) is to show.
Matching(status, tasks) ==
    {i \in 1..Len(tasks) : status.given => tasks[i].status = status.text}
MatchingNonEmpty(status, tasks) ==
    {i \in 1..Len(tasks) : Truthy(status) => tasks[i].status = status.text}
Kth(M, k) == CHOOSE i \in M : Cardinality({j \in M : j < i}) = k - 1
Row(task) ==
    <<task.id, task.description, task.status, task.createdAt, task.updatedAt>>
ShowsExactly(M) ==
    /\ res.exc = "none"
    /\ res.out = IF M = {} THEN <<"notasks">> ELSE <<"table">>
    /\ Len(shown.table) = Cardinality(M)
    /\ \A k \in 1..Len(shown.table) :
           shown.table[k] = Row(shown.before.items[Kth(M, k)])
    /\ file = shown.before
Listed == res.op = "list" /\ shown.before.kind = "list"

WellFormed(f) ==
    /\ f.kind = "list"
    /\ \A i \in 1..Len(f.items) : Fields \subseteq DOMAIN f.items[i]
Operations == {"add", "list", "update", "delete", "mark"}

\* C12: whenever the file exists and does not hold an array of records with
\* id, description, status, createdAt and updatedAt, an operation called
\* on it gets the load failure and reports it (the read-error message, or
\* the ValueError of add_task) and leaves the file as it was.
C12_MalformedStoreRejected ==
    [][(file.kind # "missing" /\ ~WellFormed(file) /\ res'.op \in Operations)
       => /\ res'.out = <<"readerror">> \/ res'.exc = "ValueError"
          /\ file' = file]_vars

\* C13: when an operation on a stored collection has changed it in memory
\* and its write_tasks call fails, the file still holds exactly what it
\* held before the operation: it is not left empty, truncated or partly
\* written.
C13_FailedSaveKeepsStore ==
    [][(file.kind = "list" /\ res'.wrote /\ res'.exc = "OSError")
       => file' = file]_vars

\* A run of main() with a missing or invalid argument: add without a
\* description, update, delete or mark without an id or with a text that
\* is not an integer, a command that is not one of the choices.
InvalidRun(r) ==
    \/ r.op = "add" /\ r.argc = 0
    \/ r.op \in {"update", "delete", "mark"} /\ r.task_id = 0
    \/ r.op = "bogus"
ErrorPrinted(r) ==
    /\ r.out \in {<<"missingarg">>, <<"notint">>, <<"usage">>}
    /\ r.exc \in {"none", "SystemExit"}

\* C14 as stated: a run with a missing or invalid argument prints an error
\* message and leaves the store exactly as before; a store file that did
\* not exist is not created.  (Runs that end with an OSError of the
\* filesystem are left aside.)
C14_InvalidRunKeepsFile ==
    [][(InvalidRun(res') /\ res'.exc # "OSError")
       => ErrorPrinted(res') /\ file' = file]_vars

\* C14 amended: such a run prints an error message and leaves an existing
\* store file exactly as it was; when there was no store file, main()
\* first creates one holding the empty collection, and when that creation
\* fails the run ends with the OSError instead of a message.
C14_InvalidRunKeepsTasks ==
    [][InvalidRun(res') =>
         IF file.kind = "missing"
         THEN \/ ErrorPrinted(res') /\ file' = json_dump(<<>>)
              \/ res'.exc = "OSError" /\ file' \in {Missing, Truncated}
         ELSE ErrorPrinted(res') /\ file' = file]_vars

\* A delete with a text that is not an integer, run on stored tasks.
C14_BadIdOnStore ==
    /\ res.op = "delete" /\ res.out = <<"notint">>
    /\ file.kind = "list" /\ Len(file.items) > 0

\* C15: called when there is no store file, add_task (when it returns)
\* has created the file and left in it exactly one task, with id 1 and
\* status todo; list_tasks, update_task, delete_task and mark_task print
\* the read error and leave the file missing, without writing.
C15_MissingFile ==
    [][file.kind = "missing" =>
         /\ (res'.op = "add" /\ res'.exc = "none") =>
                /\ file'.kind = "list"
                /\ Len(file'.items) = 1
                /\ file'.items[1].id = 1
                /\ file'.items[1].status = "todo"
         /\ res'.op \in {"list", "update", "delete", "mark"} =>
                /\ res'.out = <<"readerror">>
                /\ res'.exc = "none"
                /\ ~res'.wrote
                /\ file' = file]_vars

\* add_task has just created the file and stored the first task.
C15_FirstTaskStored ==
    /\ res.op = "add" /\ res.out = <<"initializing", "added">>
    /\ file.kind = "list" /\ Len(file.items) = 1

\* C16: mark_task takes a task from any status to any status: whatever
\* status the task has, a mark_task call that finds it and whose write
\* succeeds leaves it with the status asked for, so todo goes to done
\* directly and done goes back to in-progress.
C16_MarkFromAnyStatus ==
    (res.op = "mark" /\ was.hit /\ res.exc = "none") =>
        /\ res.out = <<"marked">>
        /\ file.kind = "list"
        /\ file.items[FirstIdx(file.items, res.task_id)].status = was.to

\* A task that was done has been marked in-progress.
C16_Reopened ==
    /\ res.op = "mark" /\ res.out = <<"marked">>
    /\ was.from = "done" /\ was.to = "in-progress"
    /\ file.items[FirstIdx(file.items, res.task_id)].status = "in-progress"

\* C17: initialize_task_file creates the file with the empty collection
\* when there is none, and leaves an existing file, valid or not, exactly
\* as it is; a second call right after it changes nothing, whatever the
\* filesystem would do with a write.
C17_InitializeIdempotent ==
    [][res'.op = "init" =>
         /\ file.kind # "missing" => file' = file /\ res'.exc = "none"
         /\ (file.kind = "missing" /\ res'.exc = "none") => file' = json_dump(<<>>)
         /\ res'.exc = "none" =>
                \A w \in WriteOutcomes :
                    initialize_task_file(file', w) = [file |-> file', exc |-> "none"]]_vars

\* initialize_task_file has run on a file that holds tasks.
C17_InitializedWithTasks ==
    /\ res.op = "init" /\ res.exc = "none"
    /\ file.kind = "list" /\ Len(file.items) > 0

\* C18: on a store the program wrote, reading the collection and writing
\* it back leaves the file with the same records, in the same order, with
\* the same field values, and reading the file again gives the collection
\* that was written.
C18_RoundTrip ==
    [][(res'.op = "resave" /\ res'.exc = "none") =>
         /\ file' = file
         /\ json_dumps(file'.items) = json_dumps(file.items)
         /\ read_tasks(file') = read_tasks(file)]_vars

\* Two stored tasks have been read and written back.
C18_TwoResaved ==
    /\ res.op = "resave" /\ res.exc = "none"
    /\ file.kind = "list" /\ Len(file.items) = 2

\* The places of the tasks with this id, and the first of them.
Places(tasks, task_id) == {j \in 1..Len(tasks) : tasks[j].id = task_id}
MinOf(S) == CHOOSE x \in S : \A y \in S : x <= y
\* a is b with some entries left out.
IsSubSeq(a, b) ==
    \E g \in [1..Len(a) -> 1..Len(b)] :
        /\ \A k \in 1..Len(a) : a[k] = b[g[k]]
        /\ \A k \in 1..(Len(a) - 1) : g[k] < g[k + 1]
\* The task at place i changed in the fields ks at most, the other tasks
\* not at all, and no task moved.
OnlyChanged(old, new, i, ks) ==
    /\ Len(new) = Len(old)
    /\ \A j \in 1..Len(old) : j # i => new[j] = old[j]
    /\ \A k \in Fields \ ks : new[i][k] = old[i][k]

C20_DuplicateIds ==
    [][(file.kind = "list" /\ res'.exc = "none"
        /\ Cardinality(Places(file.items, res'.task_id)) >= 2) =>
         LET old == file.items
             new == file'.items
             dup == Places(old, res'.task_id)
         IN  /\ res'.op = "delete" =>
                    /\ res'.out = <<"deleted">>
                    /\ Places(new, res'.task_id) = {}
                    /\ Len(new) = Len(old) - Cardinality(dup)
                    /\ IsSubSeq(new, old)
             /\ res'.op \in {"update", "mark"} =>
                    /\ res'.out \in {<<"updated">>, <<"marked">>}
                    /\ Len(new) = Len(old)
                    /\ \A j \in 1..Len(old) : j # MinOf(dup) => new[j] = old[j]]_vars

\* Of two stored tasks with the same id the first has been updated and the
\* second has not.
C20_FirstOfTwinsUpdated ==
    /\ res.op = "update" /\ res.out = <<"updated">>
    /\ file.kind = "list" /\ Len(file.items) = 2
    /\ file.items[1].id = res.task_id /\ file.items[2].id = res.task_id
    /\ file.items[1].updatedAt > file.items[2].updatedAt

====
